---------------------------- MODULE Spec2Model ----------------------------
(***************************************************************************)
(* A model of the bright-ideas backend: the markdown plan parser           *)
(* (services/plan_parser.py), the AI service with its classifier,          *)
(* fallbacks and markdown renderer (services/ai_service.py), the           *)
(* refinement session handlers (api/refinement.py) and the plan handlers   *)
(* (api/plans.py).                                                         *)
(*                                                                         *)
(* Python strings are TLA+ strings; TLC evaluates Len, Head, Tail, SubSeq  *)
(* and \o on them, so the text functions are modelled character by         *)
(* character.  Python's None is the empty tuple and a present optional     *)
(* value x is the one-element tuple <<x>>.                                 *)
(***************************************************************************)
EXTENDS Integers, Sequences, FiniteSets, TLC

VARIABLES
    pc,         \* position of the running request / call
    content,    \* the text handed to parse_markdown_plan
    parsed,     \* what parse_markdown_plan returned
    request,    \* [title, description, idea_title]: the arguments of the fallback
                \* plan generator and the title the plan is rendered under
    fallback,   \* the plan returned by _get_fallback_plan
    gen,        \* one invocation of generate_refinement_questions / generate_plan
    sessions,   \* the refinement_sessions table: id -> row
    ideas,      \* the ideas table: id -> row
    plans       \* the plans table: id -> row

vars == <<pc, content, parsed, request, fallback, gen, sessions, ideas, plans>>

None == <<>>
Some(x) == <<x>>

Min(a, b) == IF a <= b THEN a ELSE b

(***************************************************************************)
(* Python str primitives.                                                  *)
(***************************************************************************)
Char(s, i) == SubSeq(s, i, i)

\* s[i:] and s[:n] with 1-based i
From(s, i) == SubSeq(s, i, Len(s))
Prefix(s, n) == SubSeq(s, 1, Min(n, Len(s)))

\* the whitespace characters of the modelled alphabet (str.strip, regex \s)
Whitespace == {" ", "\n", "\t"}
IsSpace(c) == c \in Whitespace

Digits == "0123456789"
UpperLetters == "ABCDEFGHIJKLMNOPQRSTUVWXYZ"
LowerLetters == "abcdefghijklmnopqrstuvwxyz"

\* s.startswith(p)
StartsWith(s, p) == Len(p) <= Len(s) /\ SubSeq(s, 1, Len(p)) = p

\* s.find(sub) + 1: the first 1-based position of sub in s, 0 when absent
Find(s, sub) ==
    IF \E i \in 1..(Len(s) - Len(sub) + 1) : SubSeq(s, i, i + Len(sub) - 1) = sub
    THEN CHOOSE i \in 1..(Len(s) - Len(sub) + 1) :
             /\ SubSeq(s, i, i + Len(sub) - 1) = sub
             /\ \A j \in 1..(i - 1) : SubSeq(s, j, j + Len(sub) - 1) # sub
    ELSE 0

\* sub in s
Contains(s, sub) == Find(s, sub) # 0

\* any(word in s for word in words)
ContainsAny(s, words) == \E w \in words : Contains(s, w)

IsDigit(c) == Contains(Digits, c)

RECURSIVE LStrip(_)
LStrip(s) == IF s # "" /\ IsSpace(Head(s)) THEN LStrip(Tail(s)) ELSE s

RECURSIVE RStrip(_)
RStrip(s) ==
    IF s # "" /\ IsSpace(Char(s, Len(s))) THEN RStrip(SubSeq(s, 1, Len(s) - 1)) ELSE s

\* s.strip()
Strip(s) == RStrip(LStrip(s))

\* s.lower()
LowerChar(c) ==
    LET i == Find(UpperLetters, c) IN IF i = 0 THEN c ELSE Char(LowerLetters, i)

\* (the halves are lowered separately, and the argument is bound to its
\* value before it is used, so that a long text costs no deep evaluation)
RECURSIVE Lower(_)
Lower(s) ==
    CHOOSE lowered \in
        {IF Len(x) <= 1 THEN LowerChar(x)
         ELSE Lower(SubSeq(x, 1, Len(x) \div 2)) \o Lower(From(x, Len(x) \div 2 + 1)) :
            x \in {s}} : TRUE

\* s.split(sep): a sequence of strings, never empty
RECURSIVE Split(_, _)
Split(s, sep) ==
    LET i == Find(s, sep)
    IN  IF i = 0 THEN <<s>>
        ELSE <<SubSeq(s, 1, i - 1)>> \o Split(From(s, i + Len(sep)), sep)

\* s.split(sep, 1)
SplitOnce(s, sep) ==
    LET i == Find(s, sep)
    IN  IF i = 0 THEN <<s>> ELSE <<SubSeq(s, 1, i - 1), From(s, i + Len(sep))>>

\* sep.join(parts)
RECURSIVE Join(_, _)
Join(parts, sep) ==
    IF parts = <<>> THEN ""
    ELSE IF Len(parts) = 1 THEN parts[1]
    ELSE parts[1] \o sep \o Join(Tail(parts), sep)

\* sys.get_int_max_str_digits(): int(str) raises ValueError for a longer string
IntMaxStrDigits == 4300

\* whether int(digits) raises ValueError
IntRaises(digits) == Len(digits) > IntMaxStrDigits

\* int(digits) for a non-empty string of decimal digits within the limit
RECURSIVE ToInt(_)
ToInt(digits) ==
    IF digits = "" THEN 0
    ELSE 10 * ToInt(SubSeq(digits, 1, Len(digits) - 1))
         + (Find(Digits, Char(digits, Len(digits))) - 1)

\* the number of characters at the start of s that satisfy the class
RECURSIVE SpaceRun(_)
SpaceRun(s) == IF s # "" /\ IsSpace(Head(s)) THEN 1 + SpaceRun(Tail(s)) ELSE 0

\* (computed without recursion: a digit run may be thousands of characters long)
DigitRun(s) ==
    IF s = "" \/ ~IsDigit(Head(s)) THEN 0
    ELSE LET P == {i \in 1..Len(s) : ~IsDigit(Char(s, i))}
         IN  IF P = {} THEN Len(s) ELSE (CHOOSE i \in P : \A j \in P : i <= j) - 1

RECURSIVE HashRun(_)
HashRun(s) == IF s # "" /\ Head(s) = "#" THEN 1 + HashRun(Tail(s)) ELSE 0


(***************************************************************************)
(* services/plan_parser.py: the regular expressions, each translated to    *)
(* the match re.match / re.search finds (greedy, with the backtracking     *)
(* the pattern allows).  A failed match is None.                           *)
(***************************************************************************)

\* \s*(.+) at the start of r: the group, None when r is empty.  \s* is greedy
\* and gives one character back when nothing is left for .+
RestAfterSpaces(r) ==
    LET k == SpaceRun(r)
    IN  IF r = "" THEN None
        ELSE IF k < Len(r) THEN Some(From(r, k + 1))
        ELSE Some(Char(r, Len(r)))

\* re.match(r'^(\d+)\.\s*(.+)', line): <<group 1, group 2>>
MatchNumbered(line) ==
    LET n == DigitRun(line)
    IN  IF n = 0 \/ Char(line, Min(n + 1, Len(line))) # "." \/ n = Len(line) THEN None
        ELSE LET g == RestAfterSpaces(From(line, n + 2))
             IN  IF g = None THEN None ELSE <<SubSeq(line, 1, n), g[1]>>

\* re.match(r'^[-*]\s*(.+)', line): <<group 1>>
MatchBullet(line) ==
    IF line = "" \/ Head(line) \notin {"-", "*"} THEN None
    ELSE RestAfterSpaces(Tail(line))

\* re.match(r'^#{1,4}\s*(.+)', line): <<group 1>>.  #{1,4} takes up to four
\* hashes and gives one back when the line is nothing but those hashes
MatchHeading(line) ==
    LET h == Min(HashRun(line), 4)
    IN  IF h = 0 THEN None
        ELSE LET g == RestAfterSpaces(From(line, h + 1))
             IN  IF g # None THEN g
                 ELSE IF h >= 2 THEN Some("#")
                 ELSE None

\* the optional prefixes of time_pattern, matched with re.IGNORECASE
TimePrefixes == {"time:", "duration:", "estimate:"}

\* the rest of time_pattern, \s*([^)]+)\), tried at position j of s:
\* <<group 1, position of the closing parenthesis>>
TimeBodyAt(s, j) ==
    LET k == SpaceRun(From(s, j))
        close == Find(From(s, j + k), ")")
    IN  IF close = 0 THEN None
        ELSE IF close > 1 THEN <<SubSeq(s, j + k, j + k + close - 2), j + k + close - 1>>
        ELSE IF k >= 1 THEN <<Char(s, j + k - 1), j + k>>
        ELSE None

\* time_pattern tried at position i of s: <<group 1, end position>>
TimeMatchAt(s, i) ==
    IF Char(s, i) # "(" THEN None
    ELSE LET P == {p \in TimePrefixes : Lower(SubSeq(s, i + 1, Min(i + Len(p), Len(s)))) = p}
             withPrefix == IF P = {} THEN None
                           ELSE TimeBodyAt(s, i + 1 + Len(CHOOSE p \in P : TRUE))
         IN  IF withPrefix # None THEN withPrefix ELSE TimeBodyAt(s, i + 1)

\* re.search(time_pattern, s, re.IGNORECASE): <<start, group 1, end>>
TimeSearch(s) ==
    LET M == {i \in 1..Len(s) : TimeMatchAt(s, i) # None}
    IN  IF M = {} THEN None
        ELSE LET i == CHOOSE m \in M : \A n \in M : m <= n
             IN  <<i, TimeMatchAt(s, i)[1], TimeMatchAt(s, i)[2]>>

\* re.sub(time_pattern, '', s, flags=re.IGNORECASE): every match is removed
RECURSIVE TimeSubAll(_)
TimeSubAll(s) ==
    LET m == TimeSearch(s)
    IN  IF m = None THEN s
        ELSE SubSeq(s, 1, m[1] - 1) \o TimeSubAll(From(s, m[3] + 1))

\* r'\[([^\]]+)\]\(([^)]+)\)' tried at position i of s: <<group 1, group 2, end>>
LinkMatchAt(s, i) ==
    IF Char(s, i) # "[" THEN None
    ELSE LET rb == Find(From(s, i + 1), "]")
         IN  IF rb <= 1 \/ Char(s, Min(i + rb + 1, Len(s))) # "(" \/ i + rb + 1 > Len(s)
             THEN None
             ELSE LET rp == Find(From(s, i + rb + 2), ")")
                  IN  IF rp <= 1 THEN None
                      ELSE <<SubSeq(s, i + 1, i + rb - 1),
                             SubSeq(s, i + rb + 2, i + rb + rp),
                             i + rb + rp + 1>>

\* re.search(link pattern, s): <<start, group 1, group 2, end>>
LinkSearch(s) ==
    LET M == {i \in 1..Len(s) : LinkMatchAt(s, i) # None}
    IN  IF M = {} THEN None
        ELSE LET i == CHOOSE m \in M : \A n \in M : m <= n
             IN  <<i>> \o LinkMatchAt(s, i)

\* re.sub(link pattern, '', s)
RECURSIVE LinkSubAll(_)
LinkSubAll(s) ==
    LET m == LinkSearch(s)
    IN  IF m = None THEN s
        ELSE SubSeq(s, 1, m[1] - 1) \o LinkSubAll(From(s, m[4] + 1))

\* re.sub(r'^[-*]\s*', '', s)
StripBullet(s) == IF s # "" /\ Head(s) \in {"-", "*"} THEN LStrip(Tail(s)) ELSE s

\* re.sub(r'^[*#-]\s*', '', s)
StripMarker(s) == IF s # "" /\ Head(s) \in {"*", "#", "-"} THEN LStrip(Tail(s)) ELSE s

\* re.sub(r'^\s*-\s*', '', s)
StripLeadingDash(s) ==
    LET t == LStrip(s) IN IF t # "" /\ Head(t) = "-" THEN LStrip(Tail(t)) ELSE s

(***************************************************************************)
(* services/plan_parser.py: the parser.  A PlanStep is a record            *)
(* [order, title, description, estimated_time], a PlanResource a record    *)
(* [title, url, type, description]; estimated_time, url and the            *)
(* description of a resource are optional.                                 *)
(***************************************************************************)

\* U+2013 and U+2014 written in the model's ASCII alphabet
EnDash == "~"
EmDash == "="

\* separators = [' - ', ': ', ' – ', ' — '], in the order the loop tries them
separators == <<" - ", ": ", " " \o EnDash \o " ", " " \o EmDash \o " ">>

\* a variant of FirstSeparator that takes the separator found leftmost in text
LeftmostSeparator(text) ==
    LET found == {k \in 1..Len(separators) : Contains(text, separators[k])}
    IN  IF found = {} THEN None
        ELSE Some(separators[CHOOSE k \in found :
                       \A j \in found : Find(text, separators[k]) <= Find(text, separators[j])])

\* the first of the separators, in list order, that occurs in text (the loop
\* of lines 182-187 stops at it): None when none occurs
FirstSeparator(text) ==
    LET found == {k \in 1..Len(separators) : Contains(text, separators[k])}
    IN  IF found = {} THEN None
        ELSE Some(separators[CHOOSE k \in found : \A j \in found : k <= j])

\* a variant of SplitTitle that does not look for a separator
WholeTextTitle(text, time_estimate) ==
    <<Strip(StripMarker(text)), "", time_estimate>>

\* lines 177-192 of _parse_step_details, on the text left after the time
\* estimate is taken out: <<title, description, time_estimate>>
SplitTitle(text, time_estimate) ==
    LET sep == FirstSeparator(text)
    IN  IF sep = None THEN <<Strip(StripMarker(text)), "", time_estimate>>
        ELSE LET parts == SplitOnce(text, sep[1])
             IN  <<Strip(StripMarker(Strip(parts[1]))), Strip(parts[2]), time_estimate>>

\* _parse_step_details(step_text): <<title, description, time_estimate>>
_parse_step_details(step_text) ==
    LET time_match == TimeSearch(step_text)
    IN  IF time_match = None THEN SplitTitle(step_text, None)
        ELSE SplitTitle(Strip(TimeSubAll(step_text)), Some(Strip(time_match[2])))

\* the first of step_patterns that matches the line (lines 119-124) and what
\* lines 132-138 take from the match: <<number, step_title>>, number being
\* None for a bullet or a heading; None when no pattern matches
StepHeader(line) ==
    LET num == MatchNumbered(line)
    IN  IF num # None THEN <<Some(num[1]), num[2]>>
        ELSE LET bul == MatchBullet(line)
             IN  IF bul # None THEN <<None, bul[1]>>
                 ELSE LET hdg == MatchHeading(line)
                      IN  IF hdg # None THEN <<None, hdg[1]>> ELSE None

\* lines 127-149: the open step is saved and a new one opened from the
\* details d of the header; st is [steps, current_step, order, raised],
\* raised being the exception that ended the call (None while it runs)
OpenStep(st, order, d) ==
    [steps |-> IF st.current_step # None
               THEN Append(st.steps, st.current_step[1]) ELSE st.steps,
     current_step |-> Some([order |-> order, title |-> d[1],
                            description |-> d[2], estimated_time |-> d[3]]),
     order |-> order + 1,
     raised |-> None]

\* lines 126-157 for a non-blank line whose header match is m
ApplyStepLine(st, line, m) ==
    IF m = None
    THEN IF st.current_step # None
         THEN [st EXCEPT !.current_step[1].description =
                             IF @ # "" THEN @ \o " " \o line ELSE line]
         ELSE st
    ELSE IF m[1] # None /\ IntRaises(m[1][1])
    THEN [st EXCEPT !.raised = Some("ValueError")]
    ELSE OpenStep(st, IF m[1] # None THEN ToInt(m[1][1]) ELSE st.order,
                  _parse_step_details(m[2]))

\* one iteration of the loop of _parse_steps, line being the stripped line
ParseStrippedStepLine(st, line) ==
    IF st.raised # None \/ line = "" THEN st ELSE ApplyStepLine(st, line, StepHeader(line))

ParseStepsLine(st, raw) == ParseStrippedStepLine(st, Strip(raw))

RECURSIVE ParseStepsLoop(_, _)
ParseStepsLoop(st, lines) ==
    IF lines = <<>> THEN st ELSE ParseStepsLoop(ParseStepsLine(st, Head(lines)), Tail(lines))

\* lines 159-163: the open step is added and the steps returned, unless the
\* loop raised
StepsResult(st) ==
    [steps |-> IF st.raised # None THEN <<>>
               ELSE IF st.current_step # None
               THEN Append(st.steps, st.current_step[1]) ELSE st.steps,
     raised |-> st.raised]

\* _parse_steps(content, start_order): [steps, raised], steps being the
\* sequence of PlanStep returned when raised is None
_parse_steps(text, start_order) ==
    StepsResult(ParseStepsLoop([steps |-> <<>>, current_step |-> None,
                                order |-> start_order, raised |-> None],
                               Split(text, "\n")))

\* _detect_resource_type(title, description)
_detect_resource_type(title, description) ==
    LET combined == Lower(title \o " " \o description)
    IN  IF ContainsAny(combined, {"api", "service", "platform", "subscription"})
        THEN "service"
        ELSE IF ContainsAny(combined, {"library", "framework", "tool", "software", "cli", "package"})
        THEN "tool"
        ELSE IF ContainsAny(combined, {"article", "blog", "tutorial", "guide", "documentation", "docs"})
        THEN "article"
        ELSE IF ContainsAny(combined, {"github", "repo", "repository", "code"})
        THEN "repository"
        ELSE "tool"

\* lines 223-232: the resource appended for a title, when it is not empty
ResourceOf(title, url, description) ==
    IF title = "" THEN <<>>
    ELSE <<[title |-> title, url |-> url,
            type |-> _detect_resource_type(title, description),
            description |-> Some(description)]>>

\* lines 208-221, line being the line without its bullet and link_match the
\* markdown link found in it
ResourceFromLine(line, link_match) ==
    IF link_match # None
    THEN ResourceOf(link_match[2], Some(link_match[3]),
                    Strip(StripLeadingDash(Strip(LinkSubAll(line)))))
    ELSE IF Find(line, " - ") # 0
    THEN ResourceOf(Strip(SplitOnce(line, " - ")[1]), None, Strip(SplitOnce(line, " - ")[2]))
    ELSE ResourceOf(Strip(line), None, "")

\* one iteration of the loop of _parse_resources, stripped being the
\* stripped line: the resources it adds
ParseStrippedResourceLine(stripped) ==
    IF stripped = "" \/ StartsWith(stripped, "#") THEN <<>>
    ELSE ResourceFromLine(StripBullet(stripped), LinkSearch(StripBullet(stripped)))

ParseResourceLine(raw) == ParseStrippedResourceLine(Strip(raw))

RECURSIVE ParseResourcesLoop(_)
ParseResourcesLoop(lines) ==
    IF lines = <<>> THEN <<>>
    ELSE ParseResourceLine(Head(lines)) \o ParseResourcesLoop(Tail(lines))

\* _parse_resources(content): the sequence of PlanResource
_parse_resources(text) == ParseResourcesLoop(Split(text, "\n"))

\* _generate_default_summary(content, steps)
_generate_default_summary(text, steps) ==
    IF steps # <<>>
    THEN "Implementation plan with " \o ToString(Len(steps)) \o " steps. "
         \o Prefix(text, 100) \o "..."
    ELSE "Implementation plan: " \o Prefix(text, 150) \o "..."

\* a variant of NonEmptyStripped that keeps the empty paragraphs
StrippedParagraphs(ps) ==
    [i \in 1..Len(ps) |-> Strip(ps[i])]

\* paragraphs = [p.strip() for p in content.split('\n\n') if p.strip()]
RECURSIVE NonEmptyStripped(_)
NonEmptyStripped(ps) ==
    IF ps = <<>> THEN <<>>
    ELSE (IF Strip(Head(ps)) # "" THEN <<Strip(Head(ps))>> ELSE <<>>)
         \o NonEmptyStripped(Tail(ps))

\* an exception leaving the call
Raised(e) == [exception |-> e]

\* a returned plan dictionary
PlanDict(summary, steps, resources) ==
    [summary |-> summary, steps |-> steps, resources |-> resources]

\* variants of FirstParagraph: one without the literal for a document with
\* no paragraph, one that always gives the literal
FirstParagraphOrEmpty(paragraphs) ==
    IF paragraphs # <<>> THEN paragraphs[1] ELSE ""

LiteralSummary(paragraphs) == "Uploaded implementation plan"

\* paragraphs[0] if paragraphs else "Uploaded implementation plan"
FirstParagraph(paragraphs) ==
    IF paragraphs # <<>> THEN paragraphs[1] ELSE "Uploaded implementation plan"

\* a variant of UnstructuredResult that never truncates the content
UntruncatedResult(text, found) ==
    IF found.raised # None THEN Raised(found.raised[1])
    ELSE PlanDict(FirstParagraph(NonEmptyStripped(Split(text, "\n\n"))),
                  IF found.steps # <<>> THEN found.steps
                  ELSE <<[order |-> 1, title |-> "Implementation Plan",
                          description |-> text, estimated_time |-> None]>>,
                  <<>>)

\* lines 263-276, found being what _parse_steps(content) gave
UnstructuredResult(text, found) ==
    IF found.raised # None THEN Raised(found.raised[1])
    ELSE PlanDict(FirstParagraph(NonEmptyStripped(Split(text, "\n\n"))),
                  IF found.steps # <<>> THEN found.steps
                  ELSE <<[order |-> 1, title |-> "Implementation Plan",
                          description |-> IF Len(text) > 500
                                          THEN Prefix(text, 500) \o "..." ELSE text,
                          estimated_time |-> None]>>,
                  <<>>)

\* _parse_unstructured_content(content)
_parse_unstructured_content(text) == UnstructuredResult(text, _parse_steps(text, 1))

\* current_section = None
NoSection == "none"

\* the section a '##' header line starts (lines 56-64)
SectionOf(line) ==
    LET section_header == Lower(line)
    IN  IF Contains(section_header, "summary") THEN "summary"
        ELSE IF ContainsAny(section_header, {"step", "implementation", "plan", "breakdown"})
        THEN "steps"
        ELSE IF ContainsAny(section_header, {"resource", "tool", "reference", "link"})
        THEN "resources"
        ELSE NoSection

\* lines 48-50 and 78-79: the steps found in the section are appended;
\* step_order is advanced by the number of steps collected so far, and not at
\* all by the final flush
FlushSteps(st, found, final) ==
    IF found.raised # None THEN [st EXCEPT !.raised = found.raised]
    ELSE [st EXCEPT !.steps = @ \o found.steps,
                    !.step_order = IF final THEN @ ELSE @ + Len(st.steps) + Len(found.steps)]

\* the section text '\n'.join(current_content) handed to the section's parser
FlushText(st, text, final) ==
    IF st.current_section = "summary" THEN [st EXCEPT !.summary = Strip(text)]
    ELSE IF st.current_section = "steps"
    THEN FlushSteps(st, _parse_steps(text, st.step_order), final)
    ELSE [st EXCEPT !.resources = @ \o _parse_resources(text)]

\* "Process previous section" (lines 45-52) and, with final, "Process final
\* section" (lines 75-81); st is [summary, steps, resources, current_section,
\* current_content, step_order, raised]
FlushSection(st, final) ==
    IF st.current_section = NoSection \/ st.current_content = <<>> THEN st
    ELSE FlushText(st, Join(st.current_content, "\n"), final)

\* a variant of StartSection in which a header that names no section leaves
\* the current section open
KeepSectionOnOtherHeader(st, line) ==
    [st EXCEPT !.current_content = <<>>,
               !.current_section = IF SectionOf(line) = NoSection THEN @ ELSE SectionOf(line)]

\* lines 54-64: a new section starts
StartSection(st, line) ==
    [st EXCEPT !.current_content = <<>>, !.current_section = SectionOf(line)]

\* a variant of ScanStrippedLine that takes a single-hash line as text of
\* the current section
TitleAsText(st, line) ==
    IF st.raised # None \/ line = "" THEN st
    ELSE IF StartsWith(line, "##") THEN StartSection(FlushSection(st, FALSE), line)
    ELSE IF st.current_section # NoSection
    THEN [st EXCEPT !.current_content = Append(@, line)]
    ELSE st

\* one iteration of the main loop of parse_markdown_plan (lines 37-72), line
\* being the stripped line
ScanStrippedLine(st, line) ==
    IF st.raised # None \/ line = "" THEN st
    ELSE IF StartsWith(line, "##") THEN StartSection(FlushSection(st, FALSE), line)
    ELSE IF StartsWith(line, "#") THEN st
    ELSE IF st.current_section # NoSection
    THEN [st EXCEPT !.current_content = Append(@, line)]
    ELSE st

ScanLine(st, raw) == ScanStrippedLine(st, Strip(raw))

RECURSIVE ScanLoop(_, _)
ScanLoop(st, lines) ==
    IF lines = <<>> THEN st ELSE ScanLoop(ScanLine(st, Head(lines)), Tail(lines))

\* lines 83-95, st being the state after the final flush
PlanResult(text, st) ==
    IF st.raised # None THEN Raised(st.raised[1])
    ELSE IF st.summary = "" /\ st.steps = <<>> /\ st.resources = <<>>
    THEN _parse_unstructured_content(text)
    ELSE PlanDict(IF st.summary = "" THEN _generate_default_summary(text, st.steps)
                  ELSE st.summary,
                  st.steps, st.resources)

\* lines 74-81: the final flush, unless the loop raised
FinalFlush(st) == IF st.raised # None THEN st ELSE FlushSection(st, TRUE)

\* parse_markdown_plan(content): a plan dictionary, or the exception raised
parse_markdown_plan(text) ==
    PlanResult(text,
               FinalFlush(ScanLoop([summary |-> "", steps |-> <<>>, resources |-> <<>>,
                                    current_section |-> NoSection, current_content |-> <<>>,
                                    step_order |-> 1, raised |-> None],
                                   Split(Strip(text), "\n"))))

(***************************************************************************)
(* services/ai_service.py: the classifier, the fallbacks and the renderer. *)
(***************************************************************************)

\* a variant of ProjectTypeOf that looks for the content keywords first
ContentCreationFirst(combined_text) ==
    IF ContainsAny(combined_text, {"blog", "content", "newsletter", "course",
                                       "book", "writing", "publish"})
        THEN "content_creation"
        ELSE IF ContainsAny(combined_text, {"api", "scrape", "crawl", "data pipeline", "etl",
                                            "automation", "bot", "script", "cli"})
        THEN "technical_tool"
        ELSE "general"

\* lines 165-179: the project type of the lower-cased text
ProjectTypeOf(combined_text) ==
    IF ContainsAny(combined_text, {"api", "scrape", "crawl", "data pipeline", "etl",
                                       "automation", "bot", "script", "cli"})
        THEN "technical_tool"
        ELSE IF ContainsAny(combined_text, {"blog", "content", "newsletter", "course",
                                            "book", "writing", "publish"})
        THEN "content_creation"
        ELSE IF ContainsAny(combined_text, {"marketplace", "ecommerce", "subscription",
                                            "saas", "platform", "service"})
        THEN "business_service"
        ELSE IF ContainsAny(combined_text, {"research", "analysis", "study", "survey",
                                            "report", "dashboard"})
        THEN "research_analysis"
        ELSE IF ContainsAny(combined_text, {"app", "mobile", "web app", "website",
                                            "frontend", "ui"})
        THEN "application"
        ELSE IF ContainsAny(combined_text, {"community", "network", "forum", "social",
                                            "group"})
        THEN "community_platform"
        ELSE "general"

\* lines 161-163: combined_text
CombinedText(title, description, answers) ==
    IF answers # <<>>
    THEN Lower(title \o " " \o description) \o " " \o Lower(Join(answers, " "))
    ELSE Lower(title \o " " \o description)

\* _detect_project_type(title, description, answers): the project type;
\* answers is the sequence of answers.values(), <<>> when there are none
_detect_project_type(title, description, answers) ==
    CHOOSE project_type \in {ProjectTypeOf(combined_text) :
                                combined_text \in {CombinedText(title, description, answers)}} :
        TRUE

\* PlanStep(order=, title=, description=, estimated_time=)
PlanStep(order, title, description, estimated_time) ==
    [order |-> order, title |-> title, description |-> description,
     estimated_time |-> Some(estimated_time)]

\* PlanResource(title=, type=, description=), url left at its default
PlanResource(title, type, description) ==
    [title |-> title, url |-> None, type |-> type, description |-> Some(description)]

\* a variant of FallbackSteps with one step for every project type
SingleFallbackStep(project_type) ==
    << PlanStep(1, "Core Functionality",
                "Define and build the main value-delivering features", "2-3 weeks") >>

\* the step skeletons of _get_fallback_plan (lines 284-308)
FallbackSteps(project_type) ==
    IF project_type = "technical_tool"
    THEN << PlanStep(1, "Data Source Integration",
                     "Define and connect to required data sources", "1 week"),
            PlanStep(2, "Core Processing Logic",
                     "Build the main data transformation or automation logic", "2-3 weeks"),
            PlanStep(3, "Storage & Output Layer",
                     "Implement data persistence and output mechanisms", "1 week"),
            PlanStep(4, "Error Handling & Monitoring",
                     "Add robust error handling and logging", "3-4 days"),
            PlanStep(5, "CLI or API Interface",
                     "Create user interface for the tool", "1 week") >>
    ELSE IF project_type = "content_creation"
    THEN << PlanStep(1, "Content Strategy & Templates",
                     "Define content types and create templates", "3-4 days"),
            PlanStep(2, "Creation Workflow",
                     "Set up tools and processes for content production", "1 week"),
            PlanStep(3, "Organization System",
                     "Build categorization and tagging structure", "3-4 days"),
            PlanStep(4, "Distribution Channels",
                     "Set up publishing and distribution methods", "1 week"),
            PlanStep(5, "Analytics & Feedback",
                     "Implement tracking and audience feedback loops", "3-4 days") >>
    ELSE << PlanStep(1, "Core Functionality",
                     "Define and build the main value-delivering features", "2-3 weeks"),
            PlanStep(2, "User Interface",
                     "Create the interface for user interaction", "1-2 weeks"),
            PlanStep(3, "Data Management",
                     "Set up data storage and retrieval systems", "1 week"),
            PlanStep(4, "Integration Points",
                     "Connect with necessary external services", "1 week"),
            PlanStep(5, "Deployment & Operations",
                     "Set up hosting and operational processes", "3-4 days") >>

\* _get_fallback_plan(title, description)
_get_fallback_plan(title, description) ==
    PlanDict("Implementation breakdown for '" \o title \o "': " \o Prefix(description, 100)
             \o "... This is a fallback plan that should be refined with more specific"
             \o " details based on your requirements.",
             FallbackSteps(_detect_project_type(title, description, <<>>)),
             << PlanResource("Documentation Tool", "tool",
                             "Use Notion, Obsidian, or similar for project documentation"),
                PlanResource("Version Control", "tool",
                             "Git repository for tracking changes and collaboration") >>)

\* a variant of _get_fallback_questions that numbers the questions from 0
FallbackQuestionsFromZero ==
    << [id |-> "q0", question |-> "Who are your target users and what specific problem does this solve for them?"],
       [id |-> "q1", question |-> "How do you plan to build and deliver this solution?"],
       [id |-> "q2", question |-> "What makes your approach different from existing solutions?"],
       [id |-> "q3", question |-> "What's your timeline and what resources do you have available?"] >>

\* _get_fallback_questions(): a sequence of [id, question]
_get_fallback_questions ==
    << [id |-> "q1", question |-> "Who are your target users and what specific problem does this solve for them?"],
       [id |-> "q2", question |-> "How do you plan to build and deliver this solution?"],
       [id |-> "q3", question |-> "What makes your approach different from existing solutions?"],
       [id |-> "q4", question |-> "What's your timeline and what resources do you have available?"] >>

\* a variant of StepMarkdown that writes the time line for every step
StepMarkdownWithTime(step) ==
    "### " \o ToString(step.order) \o ". " \o step.title \o "\n"
    \o step.description \o "\n"
    \o "**Estimated Time:** "
    \o (IF step.estimated_time # None THEN step.estimated_time[1] ELSE "None") \o "\n"
    \o "\n"

\* the text generate_markdown appends for one step (lines 333-337)
StepMarkdown(step) ==
    "### " \o ToString(step.order) \o ". " \o step.title \o "\n"
    \o step.description \o "\n"
    \o (IF step.estimated_time # None /\ step.estimated_time # Some("")
        THEN "**Estimated Time:** " \o step.estimated_time[1] \o "\n" ELSE "")
    \o "\n"

\* the text generate_markdown appends for one resource (lines 342-345)
ResourceMarkdown(resource) ==
    "- **" \o resource.title \o "**"
    \o (IF resource.url # None /\ resource.url # Some("")
        THEN " ([Link](" \o resource.url[1] \o "))" ELSE "")
    \o " - " \o (IF resource.description # None THEN resource.description[1] ELSE "None")
    \o "\n"

RECURSIVE StepsMarkdown(_)
StepsMarkdown(steps) ==
    IF steps = <<>> THEN "" ELSE StepMarkdown(Head(steps)) \o StepsMarkdown(Tail(steps))

RECURSIVE ResourcesMarkdown(_)
ResourcesMarkdown(resources) ==
    IF resources = <<>> THEN ""
    ELSE ResourceMarkdown(Head(resources)) \o ResourcesMarkdown(Tail(resources))

\* generate_markdown(plan_data, idea_title)
generate_markdown(plan_data, idea_title) ==
    "# " \o idea_title \o " - Implementation Plan\n\n## Summary\n" \o plan_data.summary
    \o "\n\n## Steps\n\n"
    \o StepsMarkdown(plan_data.steps)
    \o (IF plan_data.resources # <<>>
        THEN "## Resources\n\n" \o ResourcesMarkdown(plan_data.resources) ELSE "")

(***************************************************************************)
(* The inputs of the parser: every concatenation of at most MaxTokens      *)
(* tokens, and the documents named in the specification.                   *)
(***************************************************************************)
MaxTokens == 3

Tokens ==
    { "## Summary\n", "## Steps\n", "## Tools\n", "## Notes\n", "# Title\n", "### Sub\n",
      "1. Alpha - do a thing (2 hours)\n", "- item\n", "text\n", "\n" }

RECURSIVE DocsOfLen(_)
DocsOfLen(n) ==
    IF n = 0 THEN {""} ELSE {d \o t : d \in DocsOfLen(n - 1), t \in Tokens}

RECURSIVE Repeat(_, _)
Repeat(s, n) ==
    IF n = 0 THEN ""
    ELSE LET half == Repeat(s, n \div 2)
         IN  half \o half \o (IF n % 2 = 1 THEN s ELSE "")

UnstructuredDoc == "just some random text with no structure"
SummaryOnlyDoc == "## Summary\nfoo"
ResourcesOnlyDoc == "## Resources\n- [Figma](https://figma.com) - design tool"
StepsDoc == "## Steps\n1. Alpha - do a thing (2 hours)\n2. Beta - do another thing"
LongNumberDoc == "## Steps\n" \o Repeat("1", IntMaxStrDigits + 1) \o ". x"

NamedDocuments ==
    { UnstructuredDoc, SummaryOnlyDoc, ResourcesOnlyDoc, StepsDoc, LongNumberDoc, "  \n\t",
      "## Resources\n[Docs](https://docs.io)",
      "## Resources\n- See [Repo](https://github.com/x/y) for code",
      "## Resources\n- [A](u) and [B](v) - two",
      Repeat("word ", 100), Repeat("word ", 101),
      "## Steps\n- (2 hours)", "## Steps\n1. : y",
      "## Steps\n### A\n### B",
      "## Steps\n- a\n## Steps\n- b\n## Steps\n- c",
      "## Steps\n- a\n- b\n## Tools\n- t\n## Steps\n- c\n## Notes\nn\n## Steps\n- d",
      "intro\n## Summary\ns\n## Notes\nn\n## Steps\n- a" }

\* the parts of the numbered step lines "<n>. <title> - <description> (<time>)"
StepLineParts ==
    [n : {"1", "7", "0", "12"},
     title : {"Alpha", "Phase: one", "Set up"},
     description : {"do a thing", "note: x", "push (to prod) now"},
     time : {"2 hours", "1 day"}]

\* step texts with several separators, with none, and with more than one
\* parenthesized group; each is the text of a bullet line
StepTexts ==
    { "Phase: one - note: x", "Setup: install tools", "a ~ b: c", "a = b ~ c",
      "just a title", "push (to prod) now (2 hours)", "Deploy (Time: 2 days) - go (live)",
      "Ship (1 day)" }

Documents ==
    UNION {DocsOfLen(n) : n \in 0..MaxTokens} \cup NamedDocuments
    \cup {"## Steps\n- " \o step_text : step_text \in StepTexts}
    \cup {"## Steps\n" \o l.n \o ". " \o l.title \o " - " \o l.description
              \o " (" \o l.time \o ")" : l \in StepLineParts}

(***************************************************************************)
(* The parser as a call: an uploaded document is parsed once.              *)
(***************************************************************************)
OthersIdle ==
    /\ request = None
    /\ fallback = None
    /\ gen = None
    /\ sessions = <<>>
    /\ ideas = <<>>
    /\ plans = <<>>

Init ==
    /\ pc = "uploaded"
    /\ content \in Documents
    /\ parsed = None
    /\ OthersIdle

\* the call parse_markdown_plan(content), which returns a plan or raises
ParseMarkdownPlan ==
    /\ pc \in {"uploaded", "rendered"}
    /\ parsed' = parse_markdown_plan(content)
    /\ pc' = IF DOMAIN parsed' = {"exception"} THEN "raised" ELSE "returned"
    /\ UNCHANGED <<content, request, fallback, gen, sessions, ideas, plans>>

Next == ParseMarkdownPlan

Spec == Init /\ [][Next]_vars


(***************************************************************************)
(* The round trip: the fallback plan of an idea is rendered to Markdown    *)
(* and the Markdown is parsed again.                                       *)
(***************************************************************************)
Titles == { "", "X", "Data bot", "My blog" }

Descriptions ==
    { "", "plain words", "scrape an api", "a newsletter", Repeat("long words ", 10) }

RenderTitles == { "X", "Steps & Tools" }

Requests == [title : Titles, description : Descriptions, idea_title : RenderTitles]

InitRoundTrip ==
    /\ pc = "request"
    /\ request \in Requests
    /\ fallback = None
    /\ content = ""
    /\ parsed = None
    /\ gen = None
    /\ sessions = <<>>
    /\ ideas = <<>>
    /\ plans = <<>>

\* the call _get_fallback_plan(title, description)
GetFallbackPlan ==
    /\ pc = "request"
    /\ fallback' = _get_fallback_plan(request.title, request.description)
    /\ pc' = "fallback"
    /\ UNCHANGED <<content, parsed, request, gen, sessions, ideas, plans>>

\* the call generate_markdown(plan_data, idea_title) on the fallback plan
GenerateMarkdown ==
    /\ pc = "fallback"
    /\ content' = generate_markdown(fallback, request.idea_title)
    /\ pc' = "rendered"
    /\ UNCHANGED <<parsed, request, fallback, gen, sessions, ideas, plans>>

NextRoundTrip == GetFallbackPlan \/ GenerateMarkdown \/ ParseMarkdownPlan

SpecRoundTrip == InitRoundTrip /\ [][NextRoundTrip]_vars

(***************************************************************************)
(* The classifier as a call: _detect_project_type(title, description,      *)
(* answers) on the texts of an idea and the answers of its session.        *)
(***************************************************************************)
InitClassify ==
    /\ pc = "request"
    /\ request \in [title : {"", "X", "API", "My blog", "Happy"},
                    description : {"", "plain words", "a blog api", "a forum for research",
                                   "saas dashboard", "the web"},
                    answers : {<<>>, <<"">>, <<"with a bot">>, <<"app", "a COMMUNITY">>}]
    /\ fallback = None
    /\ content = ""
    /\ parsed = None
    /\ gen = None
    /\ sessions = <<>>
    /\ ideas = <<>>
    /\ plans = <<>>

\* the call _detect_project_type(title, description, answers); gen holds the
\* project type it returns
DetectProjectType ==
    /\ pc = "request"
    /\ gen' = [project_type |->
                  _detect_project_type(request.title, request.description, request.answers)]
    /\ pc' = "classified"
    /\ UNCHANGED <<content, parsed, request, fallback, sessions, ideas, plans>>

SpecClassify == InitClassify /\ [][DetectProjectType]_vars



(***************************************************************************)
(* services/ai_service.py: generate_refinement_questions and               *)
(* generate_plan, one invocation at a time.  The text the client returns   *)
(* is modelled by what json.loads makes of it; a JSON object is a function *)
(* from its keys, a JSON array a sequence, and a JSON scalar is written as *)
(* its text.                                                               *)
(***************************************************************************)
MaxRespSteps == 2
MaxRespResources == 1
MaxRespQuestions == 2

SeqsUpTo(S, n) == UNION {[1..k -> S] : k \in 0..n}

\* the step objects a response may carry: complete ones, ones with a
\* required key missing and one whose order is no integer
StepObjects ==
    { [order |-> "1", title |-> "Build", description |-> "Build it", estimated_time |-> "1 day"],
      [order |-> "2", title |-> "Ship", description |-> "Ship it"],
      [title |-> "Build", description |-> "Build it"],
      [order |-> "1", description |-> "Build it"],
      [order |-> "1", title |-> "Build"],
      [order |-> "first", title |-> "Build", description |-> "Build it"] }

ResourceObjects ==
    { [title |-> "Figma", url |-> "https://figma.com", type |-> "service",
       description |-> "design tool"],
      [title |-> "Git"],
      [url |-> "https://figma.com"] }

QuestionObjects ==
    { [id |-> "q1", question |-> "Who is it for?"],
      [id |-> "q2", question |-> "How is it built?"],
      [id |-> "q1"],
      [question |-> "Who is it for?"] }

StepLists == SeqsUpTo(StepObjects, MaxRespSteps)
ResourceLists == SeqsUpTo(ResourceObjects, MaxRespResources)

PlanObjects ==
    {[summary |-> "A plan", steps |-> st, resources |-> rs] : st \in StepLists, rs \in ResourceLists}
    \cup {[summary |-> "A plan", steps |-> st] : st \in StepLists}
    \cup {[steps |-> st, resources |-> rs] : st \in StepLists, rs \in ResourceLists}
    \cup {[steps |-> st] : st \in StepLists}
    \cup {[summary |-> "A plan", resources |-> rs] : rs \in ResourceLists}
    \cup {[summary |-> "A plan"]}

\* the outcomes of response.choices[0].message.content: no content, text
\* that is not JSON, or JSON text
NoContent == [kind |-> "no_content"]
NotJson == [kind |-> "not_json"]
Json(value) == [kind |-> "json", value |-> value]

PlanResponses == {NoContent, NotJson} \cup {Json(o) : o \in PlanObjects}
QuestionResponses ==
    {NoContent, NotJson} \cup {Json(qs) : qs \in SeqsUpTo(QuestionObjects, MaxRespQuestions)}

\* the arguments of an invocation
GenArguments ==
    { [title |-> "X", description |-> "plain words", answers |-> <<>>],
      [title |-> "My blog", description |-> "a newsletter", answers |-> <<"with a bot">>] }

\* the outcome of a block of the try body: the value it computes, or the
\* exception it raises
Value(v) == [raised |-> None, value |-> v]
Raises(e) == [raised |-> Some(e), value |-> <<>>]

\* pydantic's validation of order: int
ValidOrder(v) == v # "" /\ \A i \in 1..Len(v) : IsDigit(Char(v, i))

\* PlanStep(order=step["order"], title=step["title"],
\*          description=step["description"], estimated_time=step.get("estimated_time"))
StepFromJson(step) ==
    IF ~({"order", "title", "description"} \subseteq DOMAIN step) THEN Raises("KeyError")
    ELSE IF ~ValidOrder(step.order) THEN Raises("ValidationError")
    ELSE Value([order |-> ToInt(step.order), title |-> step.title,
                description |-> step.description,
                estimated_time |-> IF "estimated_time" \in DOMAIN step
                                   THEN Some(step.estimated_time) ELSE None])

\* the comprehension of lines 122-129 over the list of step objects: the
\* exception of the first step that raises one, else the steps in order
RECURSIVE StepsFromList(_)
StepsFromList(list) ==
    IF list = <<>> THEN Value(<<>>)
    ELSE IF StepFromJson(Head(list)).raised # None THEN StepFromJson(Head(list))
    ELSE IF StepsFromList(Tail(list)).raised # None THEN StepsFromList(Tail(list))
    ELSE Value(<<StepFromJson(Head(list)).value>> \o StepsFromList(Tail(list)).value)

\* steps = [PlanStep(...) for step in plan_data["steps"]]
StepsFromJson(plan_data) ==
    IF "steps" \notin DOMAIN plan_data THEN Raises("KeyError")
    ELSE StepsFromList(plan_data.steps)

\* PlanResource(title=res["title"], url=res.get("url"),
\*              type=res.get("type", "tool"), description=res.get("description"))
ResourceFromJson(res) ==
    IF "title" \notin DOMAIN res THEN Raises("KeyError")
    ELSE Value([title |-> res.title,
                url |-> IF "url" \in DOMAIN res THEN Some(res.url) ELSE None,
                type |-> IF "type" \in DOMAIN res THEN res.type ELSE "tool",
                description |-> IF "description" \in DOMAIN res
                                THEN Some(res.description) ELSE None])

RECURSIVE ResourcesFromList(_)
ResourcesFromList(list) ==
    IF list = <<>> THEN Value(<<>>)
    ELSE IF ResourceFromJson(Head(list)).raised # None THEN ResourceFromJson(Head(list))
    ELSE IF ResourcesFromList(Tail(list)).raised # None THEN ResourcesFromList(Tail(list))
    ELSE Value(<<ResourceFromJson(Head(list)).value>> \o ResourcesFromList(Tail(list)).value)

\* resources = [PlanResource(...) for res in plan_data.get("resources", [])]
ResourcesFromJson(plan_data) ==
    IF "resources" \notin DOMAIN plan_data THEN Value(<<>>)
    ELSE ResourcesFromList(plan_data.resources)

\* a variant of ResultFromJson that reads the summary with a default
ResultWithDefaultSummary(plan_data, steps, resources) ==
    Value(PlanDict(IF "summary" \in DOMAIN plan_data THEN plan_data.summary ELSE "",
                   steps, resources))

\* result = {"summary": plan_data["summary"], "steps": steps, "resources": resources}
ResultFromJson(plan_data, steps, resources) ==
    IF "summary" \notin DOMAIN plan_data THEN Raises("KeyError")
    ELSE Value(PlanDict(plan_data.summary, steps, resources))

\* RefinementQuestion(id=q["id"], question=q["question"])
QuestionFromJson(q) ==
    IF ~({"id", "question"} \subseteq DOMAIN q) THEN Raises("KeyError")
    ELSE Value([id |-> q.id, question |-> q.question])

\* questions = [RefinementQuestion(...) for q in questions_data]
RECURSIVE QuestionsFromJson(_)
QuestionsFromJson(questions_data) ==
    IF questions_data = <<>> THEN Value(<<>>)
    ELSE IF QuestionFromJson(Head(questions_data)).raised # None
    THEN QuestionFromJson(Head(questions_data))
    ELSE IF QuestionsFromJson(Tail(questions_data)).raised # None
    THEN QuestionsFromJson(Tail(questions_data))
    ELSE Value(<<QuestionFromJson(Head(questions_data)).value>>
               \o QuestionsFromJson(Tail(questions_data)).value)


\* the fallback of the running function
FallbackOf(g) ==
    IF g.fn = "plan" THEN _get_fallback_plan(g.title, g.description)
    ELSE _get_fallback_questions

\* a variant of ExceptClause without the "except Exception" clause
OnlyJsonDecodeError(exc) ==
    IF exc = "JSONDecodeError" THEN "JSONDecodeError" ELSE "none"

\* the except clause that takes an exception raised in the try body:
\* "except json.JSONDecodeError" first, then "except Exception"
ExceptClause(exc) ==
    IF exc = "JSONDecodeError" THEN "JSONDecodeError" ELSE "Exception"

\* a variant of OnException that calls the client a second time
RetryOnException(g) ==
    IF g.calls < 2 THEN [g EXCEPT !.pc = "prompted"]
    ELSE [g EXCEPT !.pc = "done", !.result = Some(FallbackOf(g))]

\* what the function does with an exception raised in the try body: both
\* clauses return the fallback; an exception no clause takes leaves the function
OnException(g) ==
    IF ExceptClause(g.exc[1]) \in {"JSONDecodeError", "Exception"}
    THEN [g EXCEPT !.pc = "done", !.result = Some(FallbackOf(g))]
    ELSE [g EXCEPT !.pc = "escaped"]

\* the try body moving on with the outcome of a block: to the next block,
\* or to the except clauses
Continue(g, outcome, next) ==
    IF outcome.raised # None THEN [g EXCEPT !.pc = "except", !.exc = outcome.raised]
    ELSE [g EXCEPT !.pc = next]

InitGen ==
    /\ pc = "idle"
    /\ \E fn \in {"questions", "plan"}, a \in GenArguments :
         gen = [fn |-> fn, title |-> a.title, description |-> a.description,
                answers |-> a.answers, project_type |-> None, pc |-> "start",
                calls |-> 0, response |-> None, exc |-> None, plan_data |-> None,
                steps |-> None, resources |-> None, result |-> None]
    /\ content = ""
    /\ parsed = None
    /\ request = None
    /\ fallback = None
    /\ sessions = <<>>
    /\ ideas = <<>>
    /\ plans = <<>>

NotGen == UNCHANGED <<pc, content, parsed, request, fallback, sessions, ideas, plans>>

\* the code before the try block: the prompt is built, for a plan with the
\* project type _detect_project_type finds (lines 32-52, 93-102)
BuildPrompt ==
    /\ gen.pc = "start"
    /\ gen' = [gen EXCEPT !.pc = "prompted",
                          !.project_type =
                              IF gen.fn = "plan"
                              THEN Some(_detect_project_type(gen.title, gen.description,
                                                             gen.answers))
                              ELSE None]
    /\ NotGen

\* client.chat.completions.create(...) raises ...
ClientRaises ==
    /\ gen.pc = "prompted"
    /\ gen' = [gen EXCEPT !.pc = "except", !.calls = @ + 1, !.exc = Some("APIError")]
    /\ NotGen

\* ... or returns a response
ClientReturns ==
    /\ gen.pc = "prompted"
    /\ \E r \in IF gen.fn = "plan" THEN PlanResponses ELSE QuestionResponses :
         gen' = [gen EXCEPT !.pc = "called", !.calls = @ + 1, !.response = Some(r)]
    /\ NotGen

\* response.choices[0].message.content.strip() and json.loads of it
JsonLoads ==
    /\ gen.pc = "called"
    /\ gen' = IF gen.response[1].kind = "no_content"
              THEN Continue(gen, Raises("AttributeError"), "loaded")
              ELSE IF gen.response[1].kind = "not_json"
              THEN Continue(gen, Raises("JSONDecodeError"), "loaded")
              ELSE [gen EXCEPT !.pc = "loaded", !.plan_data = Some(gen.response[1].value)]
    /\ NotGen

\* generate_plan, lines 122-129
BuildSteps ==
    /\ gen.pc = "loaded" /\ gen.fn = "plan"
    /\ gen' = [Continue(gen, StepsFromJson(gen.plan_data[1]), "steps_built")
                 EXCEPT !.steps = IF StepsFromJson(gen.plan_data[1]).raised = None
                                  THEN Some(StepsFromJson(gen.plan_data[1]).value)
                                  ELSE None]
    /\ NotGen

\* generate_plan, lines 131-138
BuildResources ==
    /\ gen.pc = "steps_built"
    /\ gen' = [Continue(gen, ResourcesFromJson(gen.plan_data[1]), "resources_built")
                 EXCEPT !.resources = IF ResourcesFromJson(gen.plan_data[1]).raised = None
                                      THEN Some(ResourcesFromJson(gen.plan_data[1]).value)
                                      ELSE None]
    /\ NotGen

\* generate_plan, lines 140-147
BuildResult ==
    /\ gen.pc = "resources_built"
    /\ gen' = [Continue(gen, ResultFromJson(gen.plan_data[1], gen.steps[1], gen.resources[1]),
                        "done")
                 EXCEPT !.result =
                     IF ResultFromJson(gen.plan_data[1], gen.steps[1], gen.resources[1]).raised
                        = None
                     THEN Some(ResultFromJson(gen.plan_data[1], gen.steps[1],
                                              gen.resources[1]).value)
                     ELSE None]
    /\ NotGen

\* generate_refinement_questions, lines 72-78
BuildQuestions ==
    /\ gen.pc = "loaded" /\ gen.fn = "questions"
    /\ gen' = [Continue(gen, QuestionsFromJson(gen.plan_data[1]), "done")
                 EXCEPT !.result = IF QuestionsFromJson(gen.plan_data[1]).raised = None
                                   THEN Some(QuestionsFromJson(gen.plan_data[1]).value)
                                   ELSE None]
    /\ NotGen

\* the except clauses
HandleException ==
    /\ gen.pc = "except"
    /\ gen' = OnException(gen)
    /\ NotGen

NextGen ==
    \/ BuildPrompt
    \/ ClientRaises
    \/ ClientReturns
    \/ JsonLoads
    \/ BuildSteps
    \/ BuildResources
    \/ BuildResult
    \/ BuildQuestions
    \/ HandleException

SpecGen == InitGen /\ [][NextGen]_vars

\* the body of the function is straight-line code and the client call has a
\* timeout, so an invocation keeps taking steps until it returns
FairSpecGen == SpecGen /\ WF_vars(NextGen)


(***************************************************************************)
(* The renderer as a call: generate_markdown(plan_data, idea_title) on     *)
(* plans whose steps come with and without a time estimate and in any      *)
(* order, and whose resources come with and without a url; a resource      *)
(* built without a description has the description None.                   *)
(***************************************************************************)
InitRender ==
    /\ pc = "fallback"
    /\ \E summary \in {"A plan", ""},
          steps \in SeqsUpTo({ PlanStep(1, "Build", "Build it", "1 day"),
                               [PlanStep(2, "Ship", "", "") EXCEPT !.estimated_time = None],
                               PlanStep(1, "Test", "Try it", "") }, MaxRespSteps),
          resources \in SeqsUpTo({ PlanResource("Git", "tool", "version control"),
                                   [PlanResource("Figma", "service", "design tool")
                                      EXCEPT !.url = Some("https://figma.com")],
                                   [PlanResource("Docs", "tool", "") EXCEPT !.description = None] },
                                 MaxRespResources + 1) :
         fallback = PlanDict(summary, steps, resources)
    /\ \E idea_title \in RenderTitles :
         request = [title |-> "", description |-> "", idea_title |-> idea_title]
    /\ content = ""
    /\ parsed = None
    /\ gen = None
    /\ sessions = <<>>
    /\ ideas = <<>>
    /\ plans = <<>>

SpecRender == InitRender /\ [][GenerateMarkdown]_vars

(***************************************************************************)
(* api/refinement.py: the handlers that change a stored refinement         *)
(* session.  A row of the table is [idea_id, questions, answers,           *)
(* is_complete, completed_at]; answers is a function from question ids to  *)
(* answer texts.                                                           *)
(***************************************************************************)
MaxSessions == 2

\* the question lists of the stored sessions
QuestionLists == { SubSeq(_get_fallback_questions, 1, n) : n \in {1, 2} }

\* the bodies a client may PUT: RefinementAnswersSubmit.answers, Dict[str, str]
AnswerKeys == {"q1", "q2", "q9"}
AnswerDicts == UNION {[K -> {"yes"}] : K \in SUBSET AnswerKeys}
EmptyDict == [k \in {} |-> ""]

\* a row as create_refinement_session stores it (answers = {}, is_complete = False)
NewSession(idea_id, questions) ==
    [idea_id |-> idea_id, questions |-> questions, answers |-> EmptyDict,
     is_complete |-> FALSE, completed_at |-> None]

\* RefinementSession.mark_complete
mark_complete(session) ==
    [session EXCEPT !.is_complete = TRUE, !.completed_at = Some("utcnow")]

\* {q["id"] for q in session.questions}
QuestionIds(session) == {session.questions[i].id : i \in 1..Len(session.questions)}

\* submit_refinement_answers, lines 135-144, on the row it found
SubmitAnswers(session, answers) ==
    IF QuestionIds(session) \subseteq DOMAIN answers
    THEN mark_complete([session EXCEPT !.answers = answers])
    ELSE [session EXCEPT !.answers = answers]

InitRefine ==
    /\ pc = "idle"
    /\ sessions \in [1..MaxSessions -> {NewSession(1, q) : q \in QuestionLists}]
    /\ content = ""
    /\ parsed = None
    /\ request = None
    /\ fallback = None
    /\ gen = None
    /\ ideas = <<>>
    /\ plans = <<>>

\* PUT /sessions/{session_id}/answers/: 404 when there is no such session
SubmitRefinementAnswers ==
    /\ \E session_id \in 1..(MaxSessions + 1), answers \in AnswerDicts :
         sessions' = IF session_id \in DOMAIN sessions
                     THEN [sessions EXCEPT ![session_id] = SubmitAnswers(@, answers)]
                     ELSE sessions
    /\ UNCHANGED <<pc, content, parsed, request, fallback, gen, ideas, plans>>

\* POST /sessions/{session_id}/complete/: 404 when there is no such session
CompleteRefinementSession ==
    /\ \E session_id \in 1..(MaxSessions + 1) :
         sessions' = IF session_id \in DOMAIN sessions
                     THEN [sessions EXCEPT ![session_id] = mark_complete(@)]
                     ELSE sessions
    /\ UNCHANGED <<pc, content, parsed, request, fallback, gen, ideas, plans>>

NextRefine == SubmitRefinementAnswers \/ CompleteRefinementSession

SpecRefine == InitRefine /\ [][NextRefine]_vars


(***************************************************************************)
(* api/plans.py: the handlers that change the plans table, one request at  *)
(* a time.  A row of the ideas table is [title, original_description,      *)
(* status]; a row of the plans table is [idea_id, refinement_session_id,   *)
(* summary, steps, resources, status, content_markdown, is_active].        *)
(***************************************************************************)
MaxIdeas == 2
MaxPlans == 2

\* a variant of activate that leaves the other plans of the idea as they are
ActivateOnly(table, plan_id) ==
    [table EXCEPT ![plan_id].is_active = TRUE]

\* Plan.activate, on the plan plan_id of the table: self.idea.plans are the
\* rows with the idea_id of the plan
activate(table, plan_id) ==
    [id \in DOMAIN table |->
        IF id = plan_id THEN [table[id] EXCEPT !.is_active = TRUE]
        ELSE IF table[id].idea_id = table[plan_id].idea_id
        THEN [table[id] EXCEPT !.is_active = FALSE]
        ELSE table[id]]

\* the stored ideas, and for each session the idea it was created for;
\* the sessions are complete, but for the last one, which may still be open
InitPlans ==
    /\ pc = "idle"
    /\ ideas = [i \in 1..MaxIdeas |->
                   [title |-> IF i % 2 = 1 THEN "X" ELSE "My blog",
                    original_description |->
                        IF i % 2 = 1 THEN "plain words" ELSE "a newsletter",
                    status |-> "refining"]]
    /\ \E open \in {{}, {MaxSessions}} :
         sessions = [s \in 1..MaxSessions |->
                        IF s \in open
                        THEN NewSession(((s - 1) % MaxIdeas) + 1, _get_fallback_questions)
                        ELSE SubmitAnswers(
                                 NewSession(((s - 1) % MaxIdeas) + 1, _get_fallback_questions),
                                 [id \in {"q1", "q2", "q3", "q4"} |-> "yes"])]
    /\ plans = <<>>
    /\ content = ""
    /\ parsed = None
    /\ request = None
    /\ fallback = None
    /\ gen = None

\* POST /plans/generate/: 404 when there is no such session, 400 when it is
\* not complete; plan_data is what ai_service.generate_plan returns, the plan
\* of a response (for the ideas with an odd id) or the fallback plan (for the
\* others); the new row gets a fresh id
GeneratePlan ==
    /\ \E refinement_session_id \in 1..(MaxSessions + 1), plan_id \in 1..MaxPlans :
         IF refinement_session_id \notin DOMAIN sessions
            \/ ~sessions[refinement_session_id].is_complete
         THEN UNCHANGED <<ideas, plans>>
         ELSE LET idea_id == sessions[refinement_session_id].idea_id
                  idea == ideas[idea_id]
              IN  /\ plan_id \notin DOMAIN plans
                  /\ \E plan_data \in
                         { IF idea_id % 2 = 1
                           THEN PlanDict("A plan",
                                         <<PlanStep(1, "Build", "Build it", "1 day")>>, <<>>)
                           ELSE _get_fallback_plan(idea.title, idea.original_description) } :
                       plans' = [id \in DOMAIN plans \cup {plan_id} |->
                                    IF id # plan_id THEN plans[id]
                                    ELSE [idea_id |-> idea_id,
                                          refinement_session_id |-> refinement_session_id,
                                          summary |-> plan_data.summary,
                                          steps |-> plan_data.steps,
                                          resources |-> plan_data.resources,
                                          status |-> "generated",
                                          content_markdown |->
                                              Some(generate_markdown(plan_data, idea.title)),
                                          is_active |-> FALSE]]
                  /\ ideas' = [ideas EXCEPT ![idea_id].status = "planned"]
    /\ UNCHANGED <<pc, content, parsed, request, fallback, gen, sessions>>

\* PUT /plans/{plan_id}: 404 when there is no such plan; the fields the
\* body provides are stored (lines 192-218), and the markdown is rendered
\* again from the stored plan when one of summary, steps and resources of the
\* body is truthy (lines 221-234)
UpdatePlan ==
    /\ \E plan_id \in 1..(MaxPlans + 1),
          plan_update \in
              { [summary |-> Some("New summary"), steps |-> None, resources |-> None,
                 status |-> Some("edited")],
                [summary |-> None, steps |-> Some(<<>>), resources |-> None,
                 status |-> None] } :
         IF plan_id \notin DOMAIN plans THEN UNCHANGED plans
         ELSE LET plan == plans[plan_id]
                  plan_data ==
                      PlanDict(IF plan_update.summary # None
                               THEN plan_update.summary[1] ELSE plan.summary,
                               IF plan_update.steps # None
                               THEN plan_update.steps[1] ELSE plan.steps,
                               IF plan_update.resources # None
                               THEN plan_update.resources[1] ELSE plan.resources)
              IN  plans' =
                    [plans EXCEPT ![plan_id] =
                        [plan EXCEPT
                            !.summary = plan_data.summary,
                            !.steps = plan_data.steps,
                            !.resources = plan_data.resources,
                            !.status = IF plan_update.status # None
                                       THEN plan_update.status[1] ELSE @,
                            !.content_markdown =
                                IF \E field \in {plan_update.summary, plan_update.steps,
                                                 plan_update.resources} :
                                       field # None /\ Len(field[1]) > 0
                                THEN Some(generate_markdown(plan_data,
                                                            ideas[plan.idea_id].title))
                                ELSE @]]
    /\ UNCHANGED <<pc, content, parsed, request, fallback, gen, sessions, ideas>>

\* POST /plans/{plan_id}/activate: 404 when there is no such plan
ActivatePlan ==
    /\ \E plan_id \in 1..(MaxPlans + 1) :
         plans' = IF plan_id \in DOMAIN plans THEN activate(plans, plan_id) ELSE plans
    /\ UNCHANGED <<pc, content, parsed, request, fallback, gen, sessions, ideas>>

\* DELETE /plans/{plan_id}: 404 when there is no such plan
DeletePlan ==
    /\ \E plan_id \in 1..(MaxPlans + 1) :
         plans' = IF plan_id \in DOMAIN plans
                  THEN [id \in DOMAIN plans \ {plan_id} |-> plans[id]]
                  ELSE plans
    /\ UNCHANGED <<pc, content, parsed, request, fallback, gen, sessions, ideas>>

NextPlans == GeneratePlan \/ UpdatePlan \/ ActivatePlan \/ DeletePlan

SpecPlans == InitPlans /\ [][NextPlans]_vars

(***************************************************************************)
(* api/refinement.py: create_refinement_session, one request at a time.    *)
(* request holds the last request and the status code of its response.     *)
(***************************************************************************)

\* the parameters of generate_refinement_questions besides self
QuestionParameters == {"title", "description"}

InitSessions ==
    /\ pc = "idle"
    /\ ideas \in [1..MaxIdeas ->
                    [title : {"X"}, original_description : {"plain words"},
                     status : {"captured", "refining", "planned", "archived"}]]
    /\ sessions \in
          { <<>>,
            <<SubmitAnswers(NewSession(1, _get_fallback_questions),
                            [id \in {"q1", "q2", "q3", "q4"} |-> "yes"])>> }
    /\ plans = <<>>
    /\ request = None
    /\ content = ""
    /\ parsed = None
    /\ fallback = None
    /\ gen = None

\* POST /refinement/sessions/: 404 when there is no such idea (lines 31-33).
\* The call of lines 47-52 passes the keyword arguments title, description,
\* previous_sessions and previous_plans; a keyword that is no parameter of
\* generate_refinement_questions raises TypeError at the call, inside the
\* try block, and the except clause of lines 78-83 rolls back and answers
\* 500.  Otherwise the questions, from the response or the fallback, are
\* stored in a new session and the idea becomes refining (lines 55-76).
CreateRefinementSession ==
    /\ \E idea_id \in 1..(MaxIdeas + 1) :
         IF idea_id \notin DOMAIN ideas
         THEN /\ request' = Some([idea_id |-> idea_id, status_code |-> 404])
              /\ UNCHANGED <<sessions, ideas>>
         ELSE IF ~({"title", "description", "previous_sessions", "previous_plans"}
                       \subseteq QuestionParameters)
         THEN /\ request' = Some([idea_id |-> idea_id, status_code |-> 500])
              /\ UNCHANGED <<sessions, ideas>>
         ELSE \E questions \in
                     {_get_fallback_questions}
                     \cup {QuestionsFromJson(r.value).value :
                              r \in {q \in QuestionResponses \ {NoContent, NotJson} :
                                        QuestionsFromJson(q.value).raised = None}} :
                  /\ Len(sessions) < MaxSessions
                  /\ sessions' = Append(sessions, NewSession(idea_id, questions))
                  /\ ideas' = [ideas EXCEPT ![idea_id].status = "refining"]
                  /\ request' = Some([idea_id |-> idea_id, status_code |-> 200])
    /\ UNCHANGED <<pc, content, parsed, fallback, gen, plans>>

SpecSessions == InitSessions /\ [][CreateRefinementSession]_vars


(***************************************************************************)
(* Properties of the parser (Spec).                                        *)
(***************************************************************************)

\* C1: for every input string, the plan parse_markdown_plan returns has at
\* least one step.
C1_AtLeastOneStep ==
    pc = "returned" => Len(parsed.steps) >= 1

\* C6: parse_markdown_plan is total: for every input string it returns a
\* plan and never raises.
C6_NeverRaises ==
    pc # "raised"

\* C7: for every input string, the plan parse_markdown_plan returns has a
\* non-empty summary.
C7_SummaryNonEmpty ==
    pc = "returned" => parsed.summary # ""

\* the parser came to the summary of last resort (the document has no
\* paragraph at all), and to a summary synthesized from the steps it found
C7_Witness ==
    /\ pc = "returned"
    /\ \/ content = "" /\ parsed.summary = "Uploaded implementation plan"
       \/ content = "## Steps\n- item\n" /\ parsed.steps # <<>>

\* C8 as the code has it: parse_markdown_plan("just some random text with
\* no structure") returns the text itself as summary (it is the first
\* paragraph) and exactly one step, titled "Implementation Plan".
C8_UnstructuredExample ==
    content = UnstructuredDoc /\ pc = "returned" =>
        /\ parsed.summary = UnstructuredDoc
        /\ Len(parsed.steps) = 1
        /\ parsed.steps[1].title = "Implementation Plan"
        /\ parsed.steps[1].description = UnstructuredDoc

C8_Witness ==
    content = UnstructuredDoc /\ pc = "returned" /\ parsed.resources = <<>>

\* C8 as stated: the summary is the literal "Uploaded implementation plan"
\* and there is exactly one step, titled "Implementation Plan".
C8_AsStated ==
    content = UnstructuredDoc /\ pc = "returned" =>
        /\ parsed.summary = "Uploaded implementation plan"
        /\ Len(parsed.steps) = 1
        /\ parsed.steps[1].title = "Implementation Plan"

C16_LinkedResource ==
    pc = "returned" =>
        /\ content = ResourcesOnlyDoc =>
             parsed.resources =
                 << [title |-> "Figma", url |-> Some("https://figma.com"), type |-> "tool",
                     description |-> Some("design tool")] >>
        /\ \A l \in { [line |-> "[Docs](https://docs.io)", title |-> "Docs",
                       url |-> "https://docs.io", rest |-> ""],
                      [line |-> "- See [Repo](https://github.com/x/y) for code",
                       title |-> "Repo", url |-> "https://github.com/x/y",
                       rest |-> "See  for code"],
                      [line |-> "- [A](u) and [B](v) - two", title |-> "A", url |-> "u",
                       rest |-> "and [B](v) - two"] } :
             content = "## Resources\n" \o l.line =>
                 /\ Len(parsed.resources) = 1
                 /\ parsed.resources[1].title = l.title
                 /\ parsed.resources[1].url = Some(l.url)
                 /\ parsed.resources[1].description = Some(l.rest)

\* C17: when the sectioned pass finds no summary, no steps and no
\* resources, the returned summary is the first non-empty paragraph of the
\* raw content, the paragraphs being the blocks between blank lines, and the
\* literal "Uploaded implementation plan" only when there is no such
\* paragraph.
C17_FirstParagraphSummary ==
    LET st == FinalFlush(ScanLoop([summary |-> "", steps |-> <<>>, resources |-> <<>>,
                                   current_section |-> NoSection,
                                   current_content |-> <<>>, step_order |-> 1,
                                   raised |-> None],
                                  Split(Strip(content), "\n")))
        blocks == Split(content, "\n\n")
        nonEmpty == {i \in 1..Len(blocks) : Strip(blocks[i]) # ""}
    IN  pc = "returned" /\ st.summary = "" /\ st.steps = <<>> /\ st.resources = <<>> =>
            /\ nonEmpty # {} =>
                 parsed.summary = Strip(blocks[CHOOSE i \in nonEmpty : \A j \in nonEmpty : i <= j])
            /\ nonEmpty = {} => parsed.summary = "Uploaded implementation plan"
            /\ parsed.summary = "Uploaded implementation plan" =>
                 nonEmpty = {} \/ Strip(content) = "Uploaded implementation plan"

\* a document whose first block is empty got its second block as summary
C17_Witness ==
    /\ pc = "returned"
    /\ content = "\n\ntext\n"
    /\ parsed.summary = "text"

\* C18: when the unstructured fallback is taken and no line of the document
\* matches a step pattern, the plan has exactly one step, with order 1, the
\* title "Implementation Plan", no time estimate and as description the
\* content, cut to its first 500 characters followed by "..." when it is
\* longer; the resources are empty.
C18_SingleStepFallback ==
    LET st == FinalFlush(ScanLoop([summary |-> "", steps |-> <<>>, resources |-> <<>>,
                                   current_section |-> NoSection,
                                   current_content |-> <<>>, step_order |-> 1,
                                   raised |-> None],
                                  Split(Strip(content), "\n")))
        lines == Split(content, "\n")
    IN  /\ pc = "returned"
        /\ st.summary = "" /\ st.steps = <<>> /\ st.resources = <<>>
        /\ \A i \in 1..Len(lines) : StepHeader(Strip(lines[i])) = None
        => /\ parsed.steps =
                  << [order |-> 1, title |-> "Implementation Plan",
                      description |-> IF Len(content) <= 500 THEN content
                                      ELSE SubSeq(content, 1, 500) \o "...",
                      estimated_time |-> None] >>
           /\ parsed.resources = <<>>

\* a document of 505 characters was cut to 500 characters and the dots
C18_Witness ==
    /\ pc = "returned"
    /\ Len(content) = 505
    /\ Len(parsed.steps) = 1
    /\ Len(parsed.steps[1].description) = 503

\* C19: every step of a plan that parse_markdown_plan returns has an order
\* value of at least 1, also when the order is the number of a numbered line.
C19_PositiveOrder ==
    pc = "returned" => \A i \in 1..Len(parsed.steps) : parsed.steps[i].order >= 1

\* C20: every step of a plan that parse_markdown_plan returns has a
\* non-empty title, also when the step text begins with a separator or is
\* nothing but a parenthesized time estimate.
C20_TitleNonEmpty ==
    pc = "returned" => \A i \in 1..Len(parsed.steps) : parsed.steps[i].title # ""

\* C23: a heading line with one to four hash marks under a recognized steps
\* section starts a new step, as a numbered or a bullet line does: the
\* document "## Steps", "### A", "### B" yields two steps titled A and B, and
\* a steps section made of heading lines yields one step per heading line.
C23_HeadingStartsStep ==
    pc = "returned" =>
        /\ content = "## Steps\n### A\n### B" =>
              [i \in 1..Len(parsed.steps) |-> parsed.steps[i].title] = <<"A", "B">>
        /\ content \in {"## Steps\n### Sub\n", "## Steps\n### Sub\n### Sub\n"} =>
              /\ Len(parsed.steps) = Len(Split(content, "\n")) - 2
              /\ \A i \in 1..Len(parsed.steps) : parsed.steps[i].title = "Sub"

\* C24: the section pass of parse_markdown_plan ignores a line that starts
\* with a single hash: the summary, the steps, the resources and the open
\* section it ends with are those of the document without such lines, and
\* when a summary section with content was found the returned plan is the
\* plan of the document without them.
C24_TitleIgnoredInSections ==
    pc = "returned" =>
        LET NoTitle(l) == ~(StartsWith(Strip(l), "#") /\ ~StartsWith(Strip(l), "##"))
            without == Join(SelectSeq(Split(content, "\n"), NoTitle), "\n")
            start == [summary |-> "", steps |-> <<>>, resources |-> <<>>,
                      current_section |-> NoSection, current_content |-> <<>>,
                      step_order |-> 1, raised |-> None]
            st == FinalFlush(ScanLoop(start, Split(Strip(content), "\n")))
        IN  /\ st = FinalFlush(ScanLoop(start, Split(Strip(without), "\n")))
            /\ st.raised = None /\ st.summary # "" => parsed = parse_markdown_plan(without)

\* a title line inside a summary section with text after it was parsed
C24_Witness ==
    /\ pc = "returned"
    /\ content = "## Summary\n# Title\ntext\n"
    /\ parsed.summary = "text"

\* C24 as stated: for every document, the returned plan is the plan of the
\* document without the lines that start with a single hash.
C24_AsStated ==
    pc = "returned" =>
        LET NoTitle(l) == ~(StartsWith(Strip(l), "#") /\ ~StartsWith(Strip(l), "##"))
        IN  parsed = parse_markdown_plan(Join(SelectSeq(Split(content, "\n"), NoTitle), "\n"))

\* C25: the section pass of parse_markdown_plan discards the non-blank
\* lines that lie outside every recognized section (before the first header,
\* or after a header that is no summary, steps or resources header): the
\* summary, steps and resources it collects are those of the document with
\* these lines removed or replaced, and when a summary section with content
\* was found the returned plan does not change with them.
C25_OutsideLinesDiscarded ==
    pc = "returned" =>
        LET lines == Split(content, "\n")
            IsHeader(i) == StartsWith(Strip(lines[i]), "##")
            Headers(i) == {j \in 1..(i - 1) : IsHeader(j)}
            LastHeader(i) == CHOOSE j \in Headers(i) : \A k \in Headers(i) : k <= j
            Outside(i) ==
                /\ Strip(lines[i]) # "" /\ ~IsHeader(i)
                /\ \/ Headers(i) = {}
                   \/ SectionOf(Strip(lines[LastHeader(i)])) = NoSection
            Inside(i) == ~Outside(i)
            idx == SelectSeq([i \in 1..Len(lines) |-> i], Inside)
            without == Join([k \in 1..Len(idx) |-> lines[idx[k]]], "\n")
            changed == Join([i \in 1..Len(lines) |-> IF Outside(i) THEN "zzz" ELSE lines[i]],
                            "\n")
            start == [summary |-> "", steps |-> <<>>, resources |-> <<>>,
                      current_section |-> NoSection, current_content |-> <<>>,
                      step_order |-> 1, raised |-> None]
            Pass(text) == FinalFlush(ScanLoop(start, Split(Strip(text), "\n")))
        IN  /\ Pass(content) = Pass(without)
            /\ Pass(content) = Pass(changed)
            /\ Pass(content).raised = None /\ Pass(content).summary # "" =>
                  /\ parsed = parse_markdown_plan(without)
                  /\ parsed = parse_markdown_plan(changed)

\* a document with a line before the first header and a line under an
\* unrecognized header was parsed
C25_Witness ==
    /\ pc = "returned"
    /\ content = "intro\n## Summary\ns\n## Notes\nn\n## Steps\n- a"
    /\ parsed.summary = "s"
    /\ Len(parsed.steps) = 1 /\ parsed.steps[1].title = "a"

\* C25 as stated: whenever the section pass found a summary, a step or a
\* resource, the returned plan is the plan of the document with the lines
\* outside every recognized section removed.
C25_AsStated ==
    pc = "returned" /\ "raised" \notin DOMAIN parsed =>
        LET lines == Split(content, "\n")
            IsHeader(i) == StartsWith(Strip(lines[i]), "##")
            Headers(i) == {j \in 1..(i - 1) : IsHeader(j)}
            LastHeader(i) == CHOOSE j \in Headers(i) : \A k \in Headers(i) : k <= j
            Outside(i) ==
                /\ Strip(lines[i]) # "" /\ ~IsHeader(i)
                /\ \/ Headers(i) = {}
                   \/ SectionOf(Strip(lines[LastHeader(i)])) = NoSection
            Inside(i) == ~Outside(i)
            idx == SelectSeq([i \in 1..Len(lines) |-> i], Inside)
            without == Join([k \in 1..Len(idx) |-> lines[idx[k]]], "\n")
            changed == Join([i \in 1..Len(lines) |-> IF Outside(i) THEN "zzz" ELSE lines[i]],
                            "\n")
            start == [summary |-> "", steps |-> <<>>, resources |-> <<>>,
                      current_section |-> NoSection, current_content |-> <<>>,
                      step_order |-> 1, raised |-> None]
            st == FinalFlush(ScanLoop(start, Split(Strip(content), "\n")))
        IN  st.summary # "" \/ st.steps # <<>> \/ st.resources # <<>> =>
                parsed = parse_markdown_plan(without)

\* C26: _parse_step_details splits a step text that holds no parenthesis at
\* the first occurrence of the separator that comes first in the list
\* " - ", ": ", en dash, em dash among those the text contains: the title is
\* the part before it and the description the part after it; a text with no
\* separator is the title, with an empty description.
C26_SeparatorByListOrder ==
    pc = "returned" =>
        \A step_text \in StepTexts :
            content = "## Steps\n- " \o step_text /\ ~Contains(step_text, "(") =>
                LET present == {k \in 1..Len(separators) : Contains(step_text, separators[k])}
                    step == parsed.steps[1]
                IN  /\ Len(parsed.steps) = 1
                    /\ present = {} => step.title = step_text /\ step.description = ""
                    /\ \A k \in present :
                          (\A j \in present : k <= j) =>
                              /\ step.title =
                                     Strip(Prefix(step_text, Find(step_text, separators[k]) - 1))
                              /\ step.description =
                                     Strip(From(step_text, Find(step_text, separators[k])
                                                              + Len(separators[k])))

\* a step text with ": " before " - " was split at " - ", and a text with
\* an en dash before ": " was split at ": "
C26_Witness ==
    /\ pc = "returned"
    /\ \/ /\ content = "## Steps\n- Phase: one - note: x"
          /\ parsed.steps[1].title = "Phase: one" /\ parsed.steps[1].description = "note: x"
       \/ /\ content = "## Steps\n- a ~ b: c"
          /\ parsed.steps[1].title = "a ~ b" /\ parsed.steps[1].description = "c"

\* C26 as stated: the step text is split at the separator that occurs
\* leftmost in the text.
C26_AsStated ==
    pc = "returned" =>
        \A step_text \in StepTexts :
            content = "## Steps\n- " \o step_text /\ ~Contains(step_text, "(") =>
                LET present == {k \in 1..Len(separators) : Contains(step_text, separators[k])}
                    step == parsed.steps[1]
                IN  \A k \in present :
                        (\A j \in present : Find(step_text, separators[k])
                                                <= Find(step_text, separators[j])) =>
                            /\ step.title =
                                   Strip(Prefix(step_text, Find(step_text, separators[k]) - 1))
                            /\ step.description =
                                   Strip(From(step_text, Find(step_text, separators[k])
                                                            + Len(separators[k])))

\* C27: for a step text with a parenthesized group, the estimated_time is
\* the trimmed content of the first group, without a leading "time:",
\* "duration:" or "estimate:" in any case, and only that group is taken out
\* of the text: every further parenthesized group is still in the title or
\* the description.
C27_OnlyFirstGroupRemoved ==
    pc = "returned" =>
        \A step_text \in StepTexts :
            content = "## Steps\n- " \o step_text /\ Contains(step_text, "(") =>
                LET open == Find(step_text, "(")
                    inner == Prefix(From(step_text, open + 1),
                                    Find(From(step_text, open + 1), ")") - 1)
                    P == {p \in TimePrefixes : StartsWith(Lower(inner), p)}
                    group == IF P = {} THEN inner ELSE From(inner, Len(CHOOSE p \in P : TRUE) + 1)
                    step == parsed.steps[1]
                    Groups(text) == Len(Split(text, "(")) - 1
                IN  /\ step.estimated_time = Some(Strip(group))
                    /\ Groups(step.title \o " " \o step.description) = Groups(step_text) - 1

\* C28: when every step line of a document is a bullet line, the steps of
\* the returned plan carry the orders 1, 2, ..., N in document order,
\* whatever the number of steps sections the bullets are spread over.
C28_BulletOrders ==
    pc = "returned" /\ "raised" \notin DOMAIN parsed =>
        LET lines == Split(Strip(content), "\n")
            start == [summary |-> "", steps |-> <<>>, resources |-> <<>>,
                      current_section |-> NoSection, current_content |-> <<>>,
                      step_order |-> 1, raised |-> None]
            st == FinalFlush(ScanLoop(start, lines))
        IN  /\ st.steps # <<>>
            /\ \A i \in 1..Len(lines) : MatchNumbered(Strip(lines[i])) = None
            => \A i \in 1..Len(parsed.steps) : parsed.steps[i].order = i

(***************************************************************************)
(* Properties of the round trip (SpecRoundTrip).                           *)
(***************************************************************************)

\* C2: parsing the rendered markdown of a fallback plan yields a plan with
\* the same number of steps, the same order values and the same step
\* titles, in the same sequence.
C2_RoundTripKeepsSteps ==
    pc = "returned" =>
        /\ Len(parsed.steps) = Len(fallback.steps)
        /\ \A i \in 1..Len(fallback.steps) :
             /\ parsed.steps[i].order = fallback.steps[i].order
             /\ parsed.steps[i].title = fallback.steps[i].title

\* C13: for every title and description, empty ones included, the fallback
\* plan has exactly 5 steps with the order values 1..5 and exactly 2
\* resources, and its steps are the skeleton of the project type of title
\* and description alone: the technical_tool skeleton, the content_creation
\* skeleton, else the generic one.
C13_FallbackPlanShape ==
    fallback # None =>
        LET project_type == _detect_project_type(request.title, request.description, <<>>)
        IN  /\ Len(fallback.steps) = 5
            /\ \A i \in 1..5 : fallback.steps[i].order = i
            /\ Len(fallback.resources) = 2
            /\ fallback.steps[1].title =
                   IF project_type = "technical_tool" THEN "Data Source Integration"
                   ELSE IF project_type = "content_creation"
                   THEN "Content Strategy & Templates"
                   ELSE "Core Functionality"
            /\ fallback.steps[5].title =
                   IF project_type = "technical_tool" THEN "CLI or API Interface"
                   ELSE IF project_type = "content_creation" THEN "Analytics & Feedback"
                   ELSE "Deployment & Operations"

\* the fallback plan of an empty title and an empty description
C13_Witness ==
    /\ fallback # None
    /\ request.title = "" /\ request.description = ""
    /\ Len(fallback.steps) = 5
    /\ fallback.steps[1].title = "Core Functionality"

(***************************************************************************)
(* Properties of the renderer (SpecRender).                                *)
(***************************************************************************)

\* C22: the text generate_markdown returns is the title line, a Summary
\* section with the summary text, a Steps section with one heading
\* "### order. title" per step in the order of the steps sequence, each
\* followed by the description of its step and by an Estimated Time line
\* exactly when the step has a time estimate (a non-empty one), and a
\* Resources section exactly when there are resources, with one bullet per
\* resource.
C22_MarkdownShape ==
    pc = "rendered" =>
        LET lines == Split(content, "\n")
            IsHeading(l) == StartsWith(l, "### ")
            IsTime(l) == StartsWith(l, "**Estimated Time:** ")
            HasTime(step) == step.estimated_time # None /\ step.estimated_time # Some("")
            headings == SelectSeq(lines, IsHeading)
            timed == SelectSeq(fallback.steps, HasTime)
            StepAt(k) == fallback.steps[Len(SelectSeq(SubSeq(lines, 1, k), IsHeading))]
        IN  /\ SubSeq(lines, 1, 7) =
                  << "# " \o request.idea_title \o " - Implementation Plan", "",
                     "## Summary", fallback.summary, "", "## Steps", "" >>
            /\ headings = [i \in 1..Len(fallback.steps) |->
                              "### " \o ToString(fallback.steps[i].order) \o ". "
                              \o fallback.steps[i].title]
            /\ \A k \in 1..Len(lines) :
                  IsHeading(lines[k]) =>
                      /\ lines[k + 1] = StepAt(k).description
                      /\ IsTime(lines[k + 2]) <=> HasTime(StepAt(k))
            /\ SelectSeq(lines, IsTime) =
                  [i \in 1..Len(timed) |-> "**Estimated Time:** " \o timed[i].estimated_time[1]]
            /\ SelectSeq(lines, LAMBDA l : StartsWith(l, "## ")) =
                  IF fallback.resources # <<>>
                  THEN <<"## Summary", "## Steps", "## Resources">>
                  ELSE <<"## Summary", "## Steps">>
            /\ LET bullets == SelectSeq(lines, LAMBDA l : StartsWith(l, "- "))
               IN  /\ Len(bullets) = Len(fallback.resources)
                   /\ \A i \in 1..Len(bullets) :
                         StartsWith(bullets[i], "- **" \o fallback.resources[i].title \o "**")

\* a plan of two steps, the second without a time estimate, and no resource
\* was rendered
C22_Witness ==
    /\ pc = "rendered"
    /\ Len(fallback.steps) = 2
    /\ fallback.steps[1].estimated_time = Some("1 day")
    /\ fallback.steps[2].estimated_time = None
    /\ fallback.resources = <<>>
    /\ content = "# X - Implementation Plan\n\n## Summary\nA plan\n\n## Steps\n\n"
                 \o "### 1. Build\nBuild it\n**Estimated Time:** 1 day\n\n### 2. Ship\n\n\n"

(***************************************************************************)
(* Properties of generate_refinement_questions and generate_plan (SpecGen, *)
(* FairSpecGen).                                                           *)
(***************************************************************************)

\* C3: no failure of the model call or of response parsing leaves the
\* function: when the client call raises, the response text is not valid
\* JSON, or a required field is missing, the function returns the fallback
\* questions / the fallback plan.
C3_FailuresFallBack ==
    LET clientRaised == gen.response = None
        value == gen.response[1].value
        stepKeys == {"order", "title", "description"}
        fieldMissing ==
            IF gen.fn = "plan"
            THEN \/ ~({"summary", "steps"} \subseteq DOMAIN value)
                 \/ \E i \in 1..Len(value.steps) : ~(stepKeys \subseteq DOMAIN value.steps[i])
                 \/ /\ "resources" \in DOMAIN value
                    /\ \E i \in 1..Len(value.resources) :
                         "title" \notin DOMAIN value.resources[i]
            ELSE \E i \in 1..Len(value) : ~({"id", "question"} \subseteq DOMAIN value[i])
    IN  /\ gen.pc # "escaped"
        /\ gen.pc = "done" =>
             \/ gen.result = Some(FallbackOf(gen))
             \/ /\ ~clientRaised
                /\ gen.response[1].kind = "json"
                /\ ~fieldMissing

\* an invocation of each function returned its fallback after a failure of
\* each kind
C3_Witness ==
    /\ gen.pc = "done"
    /\ gen.result = Some(FallbackOf(gen))
    /\ gen.fn = "plan"
    /\ gen.exc = Some("KeyError")

\* C4: the result of generate_plan is either built entirely from the model
\* response (summary, every step and every resource taken from it) or is
\* exactly the fallback plan for (title, description); a response without
\* summary or steps, or with a step without order, title or description,
\* yields the fallback plan.
C4_AllOrNothing ==
    LET value == gen.response[1].value
        plan == gen.result[1]
        stepKeys == {"order", "title", "description"}
        incomplete ==
            \/ ~({"summary", "steps"} \subseteq DOMAIN value)
            \/ \E i \in 1..Len(value.steps) : ~(stepKeys \subseteq DOMAIN value.steps[i])
        optional(obj, key) == IF key \in DOMAIN obj THEN Some(obj[key]) ELSE None
        resourcesOf == IF "resources" \in DOMAIN value THEN value.resources ELSE <<>>
        fromResponse ==
            /\ plan.summary = value.summary
            /\ Len(plan.steps) = Len(value.steps)
            /\ \A i \in 1..Len(value.steps) :
                 /\ plan.steps[i].order = ToInt(value.steps[i].order)
                 /\ plan.steps[i].title = value.steps[i].title
                 /\ plan.steps[i].description = value.steps[i].description
                 /\ plan.steps[i].estimated_time = optional(value.steps[i], "estimated_time")
            /\ Len(plan.resources) = Len(resourcesOf)
            /\ \A i \in 1..Len(resourcesOf) :
                 /\ plan.resources[i].title = resourcesOf[i].title
                 /\ plan.resources[i].url = optional(resourcesOf[i], "url")
                 /\ plan.resources[i].description = optional(resourcesOf[i], "description")
                 /\ Some(plan.resources[i].type) \in {optional(resourcesOf[i], "type"), Some("tool")}
    IN  gen.fn = "plan" /\ gen.pc = "done" =>
            \/ gen.result = Some(_get_fallback_plan(gen.title, gen.description))
            \/ /\ gen.response # None
               /\ gen.response[1].kind = "json"
               /\ ~incomplete
               /\ fromResponse

\* generate_plan returned a plan built from a response with two steps and a
\* resource, and the fallback plan for a response whose second step has no title
C4_Witness ==
    /\ gen.fn = "plan"
    /\ gen.pc = "done"
    /\ gen.response # None
    /\ gen.response[1].kind = "json"
    /\ "steps" \in DOMAIN gen.response[1].value
    /\ Len(gen.response[1].value.steps) = 2
    /\ \/ gen.exc = None /\ Len(gen.result[1].resources) = 1
       \/ /\ "title" \notin DOMAIN gen.response[1].value.steps[2]
          /\ "title" \in DOMAIN gen.response[1].value.steps[1]
          /\ "order" \in DOMAIN gen.response[1].value.steps[1]
          /\ "description" \in DOMAIN gen.response[1].value.steps[1]

\* C5: every invocation calls the client at most once and then terminates
\* with a result; after a failed call or a malformed response it goes to
\* the fallback and issues no second call.
C5_OneCallThenResult ==
    /\ [](gen.calls <= 1)
    /\ <>[](gen.pc = "done" /\ gen.calls = 1 /\ gen.result # None)

\* an invocation whose only call failed has returned
C5_Witness ==
    /\ gen.pc = "done"
    /\ gen.calls = 1
    /\ gen.exc \in {Some("APIError"), Some("JSONDecodeError")}
    /\ gen.result # None

(***************************************************************************)
(* Properties of the refinement sessions (SpecRefine).                     *)
(***************************************************************************)

\* C9: answers of a session grow monotonically: a question id that has an
\* answer after one call still has an answer after every later call.
C9_AnswersGrow ==
    [][\A id \in DOMAIN sessions :
         DOMAIN sessions[id].answers \subseteq DOMAIN sessions'[id].answers]_vars

\* C10: in every reachable state, a session with is_complete = true has an
\* answer for every question id of its question list.
C10_CompleteMeansAnswered ==
    \A id \in DOMAIN sessions :
        sessions[id].is_complete => QuestionIds(sessions[id]) \subseteq DOMAIN sessions[id].answers

\* C14: the fallback questions are always exactly 4 questions with the ids
\* q1, q2, q3, q4 in this order, each with a non-empty text, whatever the
\* arguments and the failure were.
C14_FourFallbackQuestions ==
    gen.fn = "questions" /\ gen.pc = "done" /\ gen.exc # None =>
        /\ Len(gen.result[1]) = 4
        /\ [i \in 1..4 |-> gen.result[1][i].id] = <<"q1", "q2", "q3", "q4">>
        /\ \A i \in 1..4 : gen.result[1][i].question # ""

\* generate_refinement_questions returned the fallback questions after the
\* client call raised
C14_Witness ==
    /\ gen.fn = "questions" /\ gen.pc = "done"
    /\ gen.exc = Some("APIError")
    /\ Len(gen.result[1]) = 4

\* C21: the questions that generate_refinement_questions returns have
\* pairwise distinct ids and non-empty text, whatever JSON array the model
\* returned.
C21_DistinctQuestionIds ==
    gen.fn = "questions" /\ gen.pc = "done" =>
        /\ \A i, j \in 1..Len(gen.result[1]) :
               gen.result[1][i].id = gen.result[1][j].id => i = j
        /\ \A i \in 1..Len(gen.result[1]) : gen.result[1][i].question # ""

(***************************************************************************)
(* Properties of the plans table (SpecPlans).                              *)
(***************************************************************************)

\* C11: whatever generation, update, activation and deletion requests were
\* executed one at a time, each idea has at most one plan with is_active
\* true; and a request that activates a plan leaves every other plan of its
\* idea inactive and the plans of the other ideas as they were.
C11_OneActivePlan ==
    /\ [](\A p, q \in DOMAIN plans :
            plans[p].is_active /\ plans[q].is_active /\ plans[p].idea_id = plans[q].idea_id
                => p = q)
    /\ [][\A p \in DOMAIN plans \cap DOMAIN plans' :
            ~plans[p].is_active /\ plans'[p].is_active =>
                /\ \A q \in DOMAIN plans' \ {p} :
                     plans'[q].idea_id = plans'[p].idea_id => ~plans'[q].is_active
                /\ \A q \in DOMAIN plans :
                     plans[q].idea_id # plans[p].idea_id =>
                         q \in DOMAIN plans' /\ plans'[q] = plans[q]]_vars

\* two plans of one idea of which one is active
C11_Witness ==
    \E p, q \in DOMAIN plans :
        /\ p # q
        /\ plans[p].idea_id = plans[q].idea_id
        /\ plans[p].is_active /\ ~plans[q].is_active

(***************************************************************************)
(* Properties of the classifier (SpecClassify).                            *)
(***************************************************************************)

\* C29: after every update_plan request that changed the summary, the steps,
\* the resources or the status of a plan, the stored content_markdown is
\* generate_markdown of the stored summary, steps and resources and the
\* title of the idea; no text of a replaced step, resource or summary stays.
C29_MarkdownFollowsUpdate ==
    [][\A id \in DOMAIN plans \cap DOMAIN plans' :
         <<plans'[id].summary, plans'[id].steps, plans'[id].resources, plans'[id].status>>
             # <<plans[id].summary, plans[id].steps, plans[id].resources, plans[id].status>>
         => plans'[id].content_markdown =
                Some(generate_markdown(PlanDict(plans'[id].summary, plans'[id].steps,
                                                plans'[id].resources),
                                       ideas'[plans'[id].idea_id].title))]_vars

\* C30: after a create_refinement_session request for an existing idea, the
\* response is no error, a session of the idea with its questions, empty
\* answers and is_complete false is stored, and the status of the idea is
\* refining.
C30_SessionCreated ==
    request # None /\ request[1].idea_id \in DOMAIN ideas =>
        /\ request[1].status_code = 200
        /\ ideas[request[1].idea_id].status = "refining"
        /\ \E s \in DOMAIN sessions :
              /\ sessions[s].idea_id = request[1].idea_id
              /\ sessions[s].answers = EmptyDict
              /\ ~sessions[s].is_complete

\* C12: the project type is a function of the lower-cased text of title,
\* description and answer values: the first category of the priority table,
\* in its fixed order, one of whose keywords occurs in the text, however many
\* keywords of later categories occur, and general when none occurs.
C12_FirstCategoryWins ==
    pc = "classified" =>
        LET text == Lower(request.title \o " " \o request.description \o " "
                          \o Join(request.answers, " "))
            table == << <<"technical_tool", {"api", "scrape", "crawl", "data pipeline", "etl",
                                             "automation", "bot", "script", "cli"}>>,
                        <<"content_creation", {"blog", "content", "newsletter", "course",
                                               "book", "writing", "publish"}>>,
                        <<"business_service", {"marketplace", "ecommerce", "subscription",
                                               "saas", "platform", "service"}>>,
                        <<"research_analysis", {"research", "analysis", "study", "survey",
                                                "report", "dashboard"}>>,
                        <<"application", {"app", "mobile", "web app", "website",
                                          "frontend", "ui"}>>,
                        <<"community_platform", {"community", "network", "forum", "social",
                                                 "group"}>> >>
            hits == {i \in 1..6 : \E word \in table[i][2] : Contains(text, word)}
        IN  gen.project_type =
                IF hits = {} THEN "general"
                ELSE table[CHOOSE i \in hits : \A j \in hits : i <= j][1]

\* a text with both "api" and "blog" was classified as technical_tool
C12_Witness ==
    /\ pc = "classified"
    /\ request.description = "a blog api"
    /\ request.title = "My blog"
    /\ gen.project_type = "technical_tool"

=============================================================================
